---- MODULE Spec2Model ----
(***************************************************************************)
(* Model of src/src/vue3-reactive.js: reactive() proxies, the              *)
(* activeEffectStack, track() and trigger().                               *)
(*                                                                         *)
(* JavaScript runs the program on one thread; a call is modelled by a      *)
(* frame on callStack and every step of a callback, every iteration of     *)
(* deps.forEach and every return is one action.                            *)
(***************************************************************************)
EXTENDS Integers, Sequences, FiniteSets, TLC

(***************************************************************************)
(* Bounds of the exploration.                                              *)
(***************************************************************************)
MaxOps == 3        \* top-level calls made by the host
MaxEffects == 3    \* effect handles created
MaxDepth == 3      \* nested effect runs before the engine's call stack is exhausted

(***************************************************************************)
(* JavaScript values.                                                      *)
(***************************************************************************)
Num(n) == [t |-> "num", v |-> n]
NaN == [t |-> "nan", v |-> 0]
Undef == [t |-> "undef", v |-> 0]
RawRef(i) == [t |-> "raw", v |-> i]
ProxyRef(i) == [t |-> "proxy", v |-> i]
\* marks a key that is not an own property (not a JavaScript value)
Absent == [t |-> "absent", v |-> 0]
True == [t |-> "bool", v |-> 1]
FnRef(e) == [t |-> "fn", v |-> e]

\* a === b : NaN is not strictly equal to itself
StrictEq(a, b) == a = b /\ a.t # "nan"

isObject(value) == value.t \in {"raw", "proxy"}

\* WeakMap / Map with a growing key set
EmptyMap == [x \in {} |-> Undef]
MapHas(m, key) == key \in DOMAIN m
MapGet(m, key) == IF key \in DOMAIN m THEN m[key] ELSE Undef
MapSet(m, key, val) == [x \in (DOMAIN m) \cup {key} |-> IF x = key THEN val ELSE m[x]]

\* the dependency set of (target, key) in the graph tm, << >> when there is none
DepSeq(tm, target, key) ==
  IF target \in DOMAIN tm
  THEN IF key \in DOMAIN tm[target] THEN tm[target][key] ELSE << >>
  ELSE << >>

\* Set (insertion ordered, as deps.forEach iterates it)
Range(s) == {s[i] : i \in 1..Len(s)}
SetHas(s, x) == x \in Range(s)
SetAdd(s, x) == IF x \in Range(s) THEN s ELSE Append(s, x)

(***************************************************************************)
(* The host's data and the callbacks it registers.                         *)
(***************************************************************************)
Keys == {"a", "b", "nested", "x"}
Raws == {1, 2}
\* o = {a: 1, nested: {x: 1}}
InitHeap == [r \in Raws |-> [key \in Keys |->
               IF r = 1 /\ key = "a" THEN Num(1)
               ELSE IF r = 1 /\ key = "nested" THEN RawRef(2)
               ELSE IF r = 2 /\ key = "x" THEN Num(1)
               ELSE Absent]]
\* the keys the host reads, and the keys it writes
ReadKeys(r) == IF r = 1 THEN {"a", "nested"} ELSE {}
WriteKeys(r) == IF r = 1 THEN {"a", "b"} ELSE {"x"}
\* the keys the host deletes
DeleteKeys(r) == IF r = 1 THEN {"a", "nested"} ELSE {}
\* the values the host writes to a key
WriteVals(key) ==
  CASE key = "a" -> {Num(1), Num(2), NaN}
    [] key = "b" -> {Num(2), Undef}
    [] key = "x" -> {Num(2)}

Ins(op, r, key, val, f) == [op |-> op, r |-> r, key |-> key, val |-> val, f |-> f]
IGet(r, key) == Ins("get", r, key, Undef, 0)         \* reactive(r)[key]
IGetAcc(key) == Ins("getacc", 0, key, Undef, 0)      \* (last value read)[key]
ISet(r, key, val) == Ins("set", r, key, val, 0)      \* reactive(r)[key] = val
ISetFlip(r, key) == Ins("setflip", r, key, Undef, 0) \* reactive(r)[key] = (last value read) === 1 ? 2 : 1
IThrow == Ins("throw", 0, "a", Undef, 0)             \* throw new Error()
IEffect(f) == Ins("effect", 0, "a", Undef, f)        \* effect(f)
IWhen1 == Ins("when1", 0, "a", Undef, 0)             \* if ((last value read) !== 1) return

Fns == 1..8
Prog(f) ==
  CASE f = 1 -> << IGet(1, "a") >>
    [] f = 2 -> << IGet(1, "nested"), IGetAcc("x") >>
    [] f = 3 -> << IGet(1, "a"), ISet(1, "a", Num(2)), IGet(1, "b") >>
    [] f = 4 -> << IGet(1, "a"), IThrow >>
    [] f = 5 -> << IGet(1, "a"), IEffect(1) >>
    [] f = 6 -> << IGet(1, "a"), ISetFlip(1, "a") >>
    [] f = 7 -> << IGet(1, "a"), IWhen1, IGet(1, "b") >>
    [] f = 8 -> << ISet(1, "a", NaN), ISet(1, "a", Num(2)) >>

VARIABLES
  heap,               \* the raw objects: heap[r][key], Absent when r does not own key
  proxies,            \* proxies[p] = the target of the p-th Proxy created
  toProxy,            \* WeakMap: source object => proxy
  toRaw,              \* WeakMap: proxy => source object
  effects,            \* effects[e] = the callback wrapped by the e-th effect handle
  activeEffectStack,  \* the effect handles of the running effects
  targetMap,          \* WeakMap: target => Map: key => Set of effect handles
  callStack,          \* the JavaScript call stack, outermost frame first
  exc,                \* the error being thrown, "none" when none
  ret,                \* what the host's last finished call returned
  hostErr,            \* the error the host's last finished call threw, "none" when none
  ops,                \* number of top-level calls made
  lastOp,             \* the host's last top-level call
  \* history variables
  started,            \* started[e] = times the callback of e was entered
  finished,           \* finished[e] = times the callback of e returned normally
  nwrites,            \* number of set traps executed
  reads,              \* <<e, target, key>> : the callback of e read key of target through a proxy
  wraps               \* <<v, w>> : a call reactive(v) returned w

vars == << heap, proxies, toProxy, toRaw, effects, activeEffectStack, targetMap,
           callStack, exc, ret, hostErr, ops, lastOp, started, finished, nwrites, reads,
           wraps >>

registries == << proxies, toProxy, toRaw >>
history == << started, finished, nwrites, reads, wraps >>


(***************************************************************************)
(* The functions of vue3-reactive.js.  R is the record of the registries   *)
(* << proxies, toProxy, toRaw >>, h the heap, tm the targetMap.            *)
(***************************************************************************)
Reg == [proxies |-> proxies, toProxy |-> toProxy, toRaw |-> toRaw]

\* mutant: the check that target is itself a proxy is missing
createReactiveObject_noRawCheck(target, R) ==
  IF ~isObject(target) THEN [ret |-> target, R |-> R]
  ELSE LET observed == MapGet(R.toProxy, target) IN
    IF observed # Undef THEN [ret |-> observed, R |-> R]
    ELSE LET fresh == ProxyRef(Len(R.proxies) + 1) IN
      [ret |-> fresh,
       R |-> [proxies |-> Append(R.proxies, target),
              toProxy |-> MapSet(R.toProxy, target, fresh),
              toRaw |-> MapSet(R.toRaw, fresh, target)]]

\* mutant: the new proxy is not recorded in toRaw
createReactiveObject_noToRaw(target, R) ==
  IF ~isObject(target) THEN [ret |-> target, R |-> R]
  ELSE LET observed == MapGet(R.toProxy, target) IN
    IF observed # Undef THEN [ret |-> observed, R |-> R]
    ELSE IF MapHas(R.toRaw, target) THEN [ret |-> target, R |-> R]
    ELSE LET fresh == ProxyRef(Len(R.proxies) + 1) IN
      [ret |-> fresh,
       R |-> [proxies |-> Append(R.proxies, target),
              toProxy |-> MapSet(R.toProxy, target, fresh),
              toRaw |-> R.toRaw]]

createReactiveObject(target, R) ==
  IF ~isObject(target) THEN [ret |-> target, R |-> R]
  ELSE LET observed == MapGet(R.toProxy, target) IN
    IF observed # Undef THEN [ret |-> observed, R |-> R]
    ELSE IF MapHas(R.toRaw, target) THEN [ret |-> target, R |-> R]
    ELSE LET fresh == ProxyRef(Len(R.proxies) + 1) IN
      [ret |-> fresh,
       R |-> [proxies |-> Append(R.proxies, target),
              toProxy |-> MapSet(R.toProxy, target, fresh),
              toRaw |-> MapSet(R.toRaw, fresh, target)]]

reactive(target, R) == createReactiveObject(target, R)

\* the raw object an operation on obj ends at (a Proxy forwards what it does not trap)
RECURSIVE BaseOf(_, _)
BaseOf(ps, obj) == IF obj.t = "proxy" THEN BaseOf(ps, ps[obj.v]) ELSE obj.v

hasKey(h, ps, target, key) == h[BaseOf(ps, target)][key] # Absent

ReflectGet(h, ps, target, key) ==
  LET val == h[BaseOf(ps, target)][key] IN IF val = Absent THEN Undef ELSE val

ReflectSet(h, ps, target, key, value) ==
  [h EXCEPT ![BaseOf(ps, target)][key] = value]

ReflectDeleteProperty(h, ps, target, key) ==
  [h EXCEPT ![BaseOf(ps, target)][key] = Absent]

\* mutant: depsMap and deps are created before the active effect is looked at
track_eager(tm, stack, target, key) ==
  LET depsMap == IF MapHas(tm, target) THEN tm[target] ELSE EmptyMap
      deps == IF MapHas(depsMap, key) THEN depsMap[key] ELSE << >>
  IN MapSet(tm, target,
            MapSet(depsMap, key,
                   IF Len(stack) = 0 THEN deps ELSE SetAdd(deps, stack[Len(stack)])))

\* mutant: deps is an array and the effect is pushed without looking for it
track_push(tm, stack, target, key) ==
  IF Len(stack) = 0 THEN tm
  ELSE LET depsMap == IF MapHas(tm, target) THEN tm[target] ELSE EmptyMap
           deps == IF MapHas(depsMap, key) THEN depsMap[key] ELSE << >>
       IN MapSet(tm, target, MapSet(depsMap, key, Append(deps, stack[Len(stack)])))

\* mutant: the read is recorded for the outermost active effect
track_outermost(tm, stack, target, key) ==
  IF Len(stack) = 0 THEN tm
  ELSE LET effect == stack[1]
           depsMap == IF MapHas(tm, target) THEN tm[target] ELSE EmptyMap
           deps == IF MapHas(depsMap, key) THEN depsMap[key] ELSE << >>
       IN MapSet(tm, target,
                 MapSet(depsMap, key,
                        IF ~SetHas(deps, effect) THEN SetAdd(deps, effect) ELSE deps))

\* mutant: the dependency set is replaced by a new Set that holds the effect only
track_replace(tm, stack, target, key) ==
  IF Len(stack) = 0 THEN tm
  ELSE LET depsMap == IF MapHas(tm, target) THEN tm[target] ELSE EmptyMap
       IN MapSet(tm, target, MapSet(depsMap, key, << stack[Len(stack)] >>))

track(tm, stack, target, key) ==
  IF Len(stack) = 0 THEN tm
  ELSE LET effect == stack[Len(stack)]
           depsMap == IF MapHas(tm, target) THEN tm[target] ELSE EmptyMap
           deps == IF MapHas(depsMap, key) THEN depsMap[key] ELSE << >>
       IN MapSet(tm, target,
                 MapSet(depsMap, key,
                        IF ~SetHas(deps, effect) THEN SetAdd(deps, effect) ELSE deps))

\* mutant: an effect that has been replayed once is left out of later replays
trigger_merged(tm, target, key) ==
  SelectSeq(DepSeq(tm, target, key), LAMBDA e : started[e] < 2)

\* mutant: the iteration misses the first effect of the Set
trigger_skipFirst(tm, target, key) ==
  IF MapHas(tm, target)
  THEN IF MapHas(tm[target], key) THEN Tail(tm[target][key]) ELSE << >>
  ELSE << >>

\* mutant: only the first effect of the Set is called
trigger_onlyFirst(tm, target, key) ==
  IF MapHas(tm, target)
  THEN IF MapHas(tm[target], key) THEN SubSeq(tm[target][key], 1, 1) ELSE << >>
  ELSE << >>

\* the Set that trigger() iterates with forEach, << >> when there is none
trigger(tm, target, key) ==
  IF MapHas(tm, target)
  THEN IF MapHas(tm[target], key) THEN tm[target][key] ELSE << >>
  ELSE << >>

\* mutant: the value read is returned as it is, a nested object is not made reactive
getTrap_noWrap(target, key, h, tm, stack, R) ==
  [ret |-> ReflectGet(h, R.proxies, target, key), R |-> R,
   tm |-> track(tm, stack, target, key),
   result |-> ReflectGet(h, R.proxies, target, key)]

\* baseHandler.get
getTrap(target, key, h, tm, stack, R) ==
  LET result == ReflectGet(h, R.proxies, target, key)
      w == IF isObject(result) THEN reactive(result, R) ELSE [ret |-> result, R |-> R]
  IN [ret |-> w.ret, R |-> w.R, tm |-> track(tm, stack, target, key), result |-> result]

\* mutant: the comparison with the old value is missing
setNotify_noGuard(isOwn, oldValue, value) ==
  IF ~isOwn THEN "add" ELSE "set"

\* mutant: only the comparison with the old value decides
setNotify_valueOnly(isOwn, oldValue, value) ==
  IF StrictEq(oldValue, value) THEN "none"
  ELSE IF ~isOwn THEN "add" ELSE "set"

\* baseHandler.set: which trigger() call it makes
setNotify(isOwn, oldValue, value) ==
  IF ~isOwn THEN "add"
  ELSE IF ~StrictEq(oldValue, value) THEN "set"
  ELSE "none"

\* baseHandler.set up to the call of trigger()
setTrap(target, key, value, h, ps) ==
  LET isOwn == hasKey(h, ps, target, key)
      oldValue == ReflectGet(h, ps, target, key)
  IN [heap |-> ReflectSet(h, ps, target, key, value),
      type |-> setNotify(isOwn, oldValue, value),
      isOwn |-> isOwn, oldValue |-> oldValue]

\* mutant: the dependency set of the deleted key is dropped
deleteTrap_dropDeps(target, key, h, ps, tm) ==
  [heap |-> ReflectDeleteProperty(h, ps, target, key),
   tm |-> IF MapHas(tm, target)
          THEN MapSet(tm, target, [k \in (DOMAIN tm[target]) \ {key} |-> tm[target][k]])
          ELSE tm]

\* baseHandler.deleteProperty: the delete, and nothing done to the targetMap
deleteTrap(target, key, h, ps, tm) ==
  [heap |-> ReflectDeleteProperty(h, ps, target, key), tm |-> tm]

(***************************************************************************)
(* Frames of the call stack.  A "run" frame is one call of an effect       *)
(* handle (run() and the callback); a "set" frame is one call of the set   *)
(* trap, which stays on the stack while trigger() iterates the deps.       *)
(***************************************************************************)
NoSnap == [deps |-> << >>, started |-> << >>, finished |-> << >>, nwrites |-> 0,
           neffects |-> 0, nested |-> FALSE, value |-> Undef, before |-> Absent]

RunFrame(e, direct, nw) ==
  [kind |-> "run", e |-> e, pc |-> 1, acc |-> Undef, direct |-> direct,
   t |-> Undef, key |-> "a", i |-> 0, type |-> "none",
   g |-> [NoSnap EXCEPT !.nwrites = nw, !.started = started, !.finished = finished]]

SetFrame(target, key, type, g) ==
  [kind |-> "set", e |-> 0, pc |-> 0, acc |-> Undef, direct |-> FALSE,
   t |-> target, key |-> key, i |-> 1, type |-> type, g |-> g]

Top(s) == s[Len(s)]
Pop(s) == IF Len(s) = 0 THEN s ELSE SubSeq(s, 1, Len(s) - 1)
Depth(cs) == Cardinality({j \in 1..Len(cs) : cs[j].kind = "run"})
Idle == callStack = << >> /\ exc = "none"
Running == /\ callStack # << >>
           /\ exc = "none"
           /\ Top(callStack).kind = "run"
           /\ Top(callStack).pc <= Len(Prog(effects[Top(callStack).e]))
CurIns == Prog(effects[Top(callStack).e])[Top(callStack).pc]


Init ==
  /\ heap = InitHeap
  /\ proxies = << >>
  /\ toProxy = EmptyMap
  /\ toRaw = EmptyMap
  /\ effects = << >>
  /\ activeEffectStack = << >>
  /\ targetMap = EmptyMap
  /\ callStack = << >>
  /\ exc = "none"
  /\ ret = Undef
  /\ hostErr = "none"
  /\ ops = 0
  /\ lastOp = "none"
  /\ started = [e \in 1..MaxEffects |-> 0]
  /\ finished = [e \in 1..MaxEffects |-> 0]
  /\ nwrites = 0
  /\ reads = {}
  /\ wraps = {}


(***************************************************************************)
(* Calls and returns.                                                      *)
(***************************************************************************)
\* the caller's frame once its callee has returned normally
Resume(cs) ==
  IF cs = << >> THEN cs
  ELSE IF Top(cs).kind = "run" THEN [cs EXCEPT ![Len(cs)].pc = @ + 1]
  ELSE [cs EXCEPT ![Len(cs)].i = @ + 1]

\* what a set trap finds when it is entered (kept in its frame, read by the properties)
Snap(target, key, value) ==
  [deps |-> DepSeq(targetMap, target, key), started |-> started, finished |-> finished,
   nwrites |-> nwrites, neffects |-> Len(effects), nested |-> callStack # << >>,
   value |-> value, before |-> heap[BaseOf(proxies, target)][key]]

\* mutant: the push is missing
runEnter_noPush(stack, e) == stack

\* run(): activeEffectStack.push(effect) before the callback is called
runEnter(stack, e) == Append(stack, e)

\* mutant: the pop is not in a finally block
runExit_noFinally(stack, threw) == IF threw THEN stack ELSE Pop(stack)

\* run(): finally { activeEffectStack.pop() }, whether the callback threw or not
runExit(stack, threw) == Pop(stack)

\* mutant: an effect that is already running is not called again
Invoke_noReentry(cs, e, direct) ==
  IF e \in Range(activeEffectStack)
  THEN /\ callStack' = Resume(cs)
       /\ UNCHANGED << activeEffectStack, started, exc >>
  ELSE \/ /\ Depth(cs) < MaxDepth
          /\ activeEffectStack' = runEnter(activeEffectStack, e)
          /\ callStack' = Append(cs, RunFrame(e, direct, nwrites))
          /\ started' = [started EXCEPT ![e] = @ + 1]
          /\ exc' = "none"
       \/ /\ Depth(cs) >= MaxDepth
          /\ \/ /\ activeEffectStack' = activeEffectStack
                /\ callStack' = cs
             \/ /\ activeEffectStack' = runEnter(activeEffectStack, e)
                /\ callStack' = Append(cs, RunFrame(e, direct, nwrites))
          /\ started' = started
          /\ exc' = "RangeError"

\* effect(): the call of the handle e made with cs as the caller's call stack.
\* run() pushes e and calls the callback; when the engine's call stack is
\* exhausted the call throws a RangeError instead, either on entering the
\* handle or run() (nothing pushed) or on entering the callback (e pushed).
Invoke(cs, e, direct) ==
  \/ /\ Depth(cs) < MaxDepth
     /\ activeEffectStack' = runEnter(activeEffectStack, e)
     /\ callStack' = Append(cs, RunFrame(e, direct, nwrites))
     /\ started' = [started EXCEPT ![e] = @ + 1]
     /\ exc' = "none"
  \/ /\ Depth(cs) >= MaxDepth
     /\ \/ /\ activeEffectStack' = activeEffectStack
           /\ callStack' = cs
        \/ /\ activeEffectStack' = runEnter(activeEffectStack, e)
           /\ callStack' = Append(cs, RunFrame(e, direct, nwrites))
     /\ started' = started
     /\ exc' = "RangeError"

(***************************************************************************)
(* The host's top-level calls.                                             *)
(***************************************************************************)
HostArgs == {RawRef(r) : r \in Raws} \cup {ProxyRef(p) : p \in 1..Len(proxies)} \cup {Num(1)}

\* reactive(arg)
HostReactive(arg) ==
  /\ Idle /\ ops < MaxOps
  /\ LET w == reactive(arg, Reg) IN
       /\ proxies' = w.R.proxies /\ toProxy' = w.R.toProxy /\ toRaw' = w.R.toRaw
       /\ ret' = w.ret
       /\ wraps' = IF isObject(arg) THEN wraps \cup {<< arg, w.ret >>} ELSE wraps
  /\ hostErr' = "none" /\ ops' = ops + 1 /\ lastOp' = "reactive"
  /\ UNCHANGED << heap, effects, activeEffectStack, targetMap, callStack, exc,
                  started, finished, nwrites, reads >>

\* reactive(r)[key]
HostGet(r, key) ==
  /\ Idle /\ ops < MaxOps
  /\ LET w == reactive(RawRef(r), Reg)
         target == w.R.proxies[w.ret.v]
         g == getTrap(target, key, heap, targetMap, activeEffectStack, w.R)
     IN /\ proxies' = g.R.proxies /\ toProxy' = g.R.toProxy /\ toRaw' = g.R.toRaw
        /\ targetMap' = g.tm
        /\ ret' = g.ret
        /\ wraps' = wraps \cup {<< RawRef(r), w.ret >>}
                          \cup (IF isObject(g.result) THEN {<< g.result, g.ret >>} ELSE {})
  /\ hostErr' = "none" /\ ops' = ops + 1 /\ lastOp' = "get"
  /\ UNCHANGED << heap, effects, activeEffectStack, callStack, exc,
                  started, finished, nwrites, reads >>

\* reactive(r)[key] = value
HostSet(r, key, value) ==
  /\ Idle /\ ops < MaxOps
  /\ LET w == reactive(RawRef(r), Reg)
         target == w.R.proxies[w.ret.v]
         st == setTrap(target, key, value, heap, w.R.proxies)
     IN /\ proxies' = w.R.proxies /\ toProxy' = w.R.toProxy /\ toRaw' = w.R.toRaw
        /\ heap' = st.heap
        /\ callStack' = << SetFrame(target, key, st.type, Snap(target, key, value)) >>
        /\ wraps' = wraps \cup {<< RawRef(r), w.ret >>}
  /\ nwrites' = nwrites + 1
  /\ ops' = ops + 1 /\ lastOp' = "set"
  /\ UNCHANGED << effects, activeEffectStack, targetMap, exc, ret, hostErr,
                  started, finished, reads >>

\* delete reactive(r)[key]
HostDelete(r, key) ==
  /\ Idle /\ ops < MaxOps
  /\ LET w == reactive(RawRef(r), Reg)
         target == w.R.proxies[w.ret.v]
     IN /\ proxies' = w.R.proxies /\ toProxy' = w.R.toProxy /\ toRaw' = w.R.toRaw
        /\ heap' = deleteTrap(target, key, heap, w.R.proxies, targetMap).heap
        /\ targetMap' = deleteTrap(target, key, heap, w.R.proxies, targetMap).tm
        /\ wraps' = wraps \cup {<< RawRef(r), w.ret >>}
  /\ ret' = True /\ hostErr' = "none" /\ ops' = ops + 1 /\ lastOp' = "delete"
  /\ UNCHANGED << effects, activeEffectStack, callStack, exc,
                  started, finished, nwrites, reads >>

\* effect(Prog(f))
HostEffect(f) ==
  /\ Idle /\ ops < MaxOps
  /\ Len(effects) < MaxEffects
  /\ effects' = Append(effects, f)
  /\ Invoke(<< >>, Len(effects) + 1, TRUE)
  /\ ops' = ops + 1 /\ lastOp' = "effect"
  /\ UNCHANGED << heap, proxies, toProxy, toRaw, targetMap, ret, hostErr,
                  finished, nwrites, reads, wraps >>


(***************************************************************************)
(* The steps of a running callback.                                        *)
(***************************************************************************)
Advance(cs, acc) == [cs EXCEPT ![Len(cs)].pc = @ + 1, ![Len(cs)].acc = acc]

\* reactive(r)[key] or (last value read)[key]
StepGet ==
  /\ Running
  /\ CurIns.op \in {"get", "getacc"}
  /\ \E w \in {IF CurIns.op = "get" THEN reactive(RawRef(CurIns.r), Reg)
               ELSE [ret |-> Top(callStack).acc, R |-> Reg]} :
       LET f == Top(callStack)
           base == w.ret
           wrapped == IF CurIns.op = "get" THEN {<< RawRef(CurIns.r), w.ret >>} ELSE {}
       IN IF base.t = "proxy"
          THEN \E g \in {getTrap(w.R.proxies[base.v], CurIns.key, heap, targetMap,
                                 activeEffectStack, w.R)} :
                 /\ proxies' = g.R.proxies /\ toProxy' = g.R.toProxy /\ toRaw' = g.R.toRaw
                 /\ targetMap' = g.tm
                 /\ callStack' = Advance(callStack, g.ret)
                 /\ reads' = reads \cup {<< f.e, w.R.proxies[base.v], CurIns.key >>}
                 /\ wraps' = wraps \cup wrapped
                       \cup (IF isObject(g.result) THEN {<< g.result, g.ret >>} ELSE {})
                 /\ exc' = exc
          ELSE /\ proxies' = w.R.proxies /\ toProxy' = w.R.toProxy /\ toRaw' = w.R.toRaw
               /\ UNCHANGED << targetMap, reads >>
               /\ wraps' = wraps \cup wrapped
               /\ IF base.t = "undef"
                  THEN exc' = "TypeError" /\ callStack' = callStack
                  ELSE /\ exc' = exc
                       /\ callStack' = Advance(callStack,
                             IF base.t = "raw"
                             THEN ReflectGet(heap, w.R.proxies, base, CurIns.key)
                             ELSE Undef)
  /\ UNCHANGED << heap, effects, activeEffectStack, ret, hostErr, ops, lastOp,
                  started, finished, nwrites >>

\* reactive(r)[key] = value
StepSet ==
  /\ Running
  /\ CurIns.op \in {"set", "setflip"}
  /\ \E w \in {reactive(RawRef(CurIns.r), Reg)} :
       LET f == Top(callStack)
           value == IF CurIns.op = "set" THEN CurIns.val
                    ELSE IF StrictEq(f.acc, Num(1)) THEN Num(2) ELSE Num(1)
           target == w.R.proxies[w.ret.v]
       IN \E st \in {setTrap(target, CurIns.key, value, heap, w.R.proxies)} :
            /\ proxies' = w.R.proxies /\ toProxy' = w.R.toProxy /\ toRaw' = w.R.toRaw
            /\ heap' = st.heap
            /\ callStack' = Append(callStack,
                                   SetFrame(target, CurIns.key, st.type,
                                            Snap(target, CurIns.key, value)))
            /\ wraps' = wraps \cup {<< RawRef(CurIns.r), w.ret >>}
  /\ nwrites' = nwrites + 1
  /\ UNCHANGED << effects, activeEffectStack, targetMap, exc, ret, hostErr, ops, lastOp,
                  started, finished, reads >>

\* throw new Error()
StepThrow ==
  /\ Running
  /\ CurIns.op = "throw"
  /\ exc' = "Error"
  /\ UNCHANGED << heap, proxies, toProxy, toRaw, effects, activeEffectStack, targetMap,
                  callStack, ret, hostErr, ops, lastOp, history >>

\* if ((last value read) !== 1) return
StepWhen ==
  /\ Running
  /\ CurIns.op = "when1"
  /\ callStack' = [callStack EXCEPT ![Len(callStack)].pc =
                     IF StrictEq(Top(callStack).acc, Num(1)) THEN @ + 1
                     ELSE Len(Prog(effects[Top(callStack).e])) + 1]
  /\ UNCHANGED << heap, proxies, toProxy, toRaw, effects, activeEffectStack, targetMap,
                  exc, ret, hostErr, ops, lastOp, history >>

\* effect(Prog(f)) called by a callback
StepEffect ==
  /\ Running
  /\ CurIns.op = "effect"
  /\ Len(effects) < MaxEffects
  /\ effects' = Append(effects, CurIns.f)
  /\ Invoke(callStack, Len(effects) + 1, TRUE)
  /\ UNCHANGED << heap, proxies, toProxy, toRaw, targetMap, ret, hostErr, ops, lastOp,
                  finished, nwrites, reads, wraps >>

(***************************************************************************)
(* run(): the callback has returned; finally pop, return to the caller.    *)
(***************************************************************************)
RunReturn ==
  /\ callStack # << >> /\ exc = "none"
  /\ Top(callStack).kind = "run"
  /\ Top(callStack).pc > Len(Prog(effects[Top(callStack).e]))
  /\ LET f == Top(callStack) IN
       /\ activeEffectStack' = runExit(activeEffectStack, FALSE)
       /\ finished' = [finished EXCEPT ![f.e] = @ + 1]
       /\ callStack' = Resume(Pop(callStack))
       /\ IF Len(callStack) = 1
          THEN ret' = Undef /\ hostErr' = "none"
          ELSE UNCHANGED << ret, hostErr >>
  /\ UNCHANGED << heap, proxies, toProxy, toRaw, effects, targetMap, exc, ops, lastOp,
                  started, nwrites, reads, wraps >>

(***************************************************************************)
(* trigger(): deps.forEach calls the next effect of the (live) Set.        *)
(***************************************************************************)
TriggerNext ==
  /\ callStack # << >> /\ exc = "none"
  /\ Top(callStack).kind = "set"
  /\ Top(callStack).type # "none"
  /\ LET f == Top(callStack)
         deps == trigger(targetMap, f.t, f.key)
     IN /\ f.i <= Len(deps)
        /\ Invoke(callStack, deps[f.i], FALSE)
  /\ UNCHANGED << heap, proxies, toProxy, toRaw, effects, targetMap, ret, hostErr, ops, lastOp,
                  finished, nwrites, reads, wraps >>

\* forEach is over (or trigger() was not called): the set trap returns
TriggerReturn ==
  /\ callStack # << >> /\ exc = "none"
  /\ Top(callStack).kind = "set"
  /\ LET f == Top(callStack) IN
       /\ \/ f.type = "none"
          \/ f.i > Len(trigger(targetMap, f.t, f.key))
       /\ callStack' = Resume(Pop(callStack))
       /\ IF Len(callStack) = 1
          THEN ret' = f.g.value /\ hostErr' = "none"
          ELSE UNCHANGED << ret, hostErr >>
  /\ UNCHANGED << heap, proxies, toProxy, toRaw, effects, activeEffectStack, targetMap,
                  exc, ops, lastOp, started, finished, nwrites, reads, wraps >>

\* mutant: a set trap that is left by an error puts the old value back
Unwind_rollback ==
  /\ callStack # << >> /\ exc # "none"
  /\ LET f == Top(callStack) IN
       /\ callStack' = Pop(callStack)
       /\ activeEffectStack' = IF f.kind = "run" THEN Pop(activeEffectStack)
                               ELSE activeEffectStack
       /\ heap' = IF f.kind = "set"
                  THEN [heap EXCEPT ![BaseOf(proxies, f.t)][f.key] = f.g.before]
                  ELSE heap
       /\ IF Len(callStack) = 1
          THEN hostErr' = exc /\ exc' = "none"
          ELSE UNCHANGED << hostErr, exc >>
  /\ UNCHANGED << proxies, toProxy, toRaw, effects, targetMap, ret, ops, lastOp,
                  started, finished, nwrites, reads, wraps >>

\* mutant: run() catches what its callback threw and returns normally
Unwind_swallow ==
  /\ callStack # << >> /\ exc # "none"
  /\ LET f == Top(callStack) IN
       /\ callStack' = IF f.kind = "run" THEN Resume(Pop(callStack)) ELSE Pop(callStack)
       /\ activeEffectStack' = IF f.kind = "run" THEN Pop(activeEffectStack)
                               ELSE activeEffectStack
       /\ IF f.kind = "run"
          THEN exc' = "none" /\ hostErr' = IF Len(callStack) = 1 THEN "none" ELSE hostErr
          ELSE IF Len(callStack) = 1
               THEN hostErr' = exc /\ exc' = "none"
               ELSE UNCHANGED << hostErr, exc >>
  /\ UNCHANGED << heap, proxies, toProxy, toRaw, effects, targetMap, ret, ops, lastOp,
                  started, finished, nwrites, reads, wraps >>

(***************************************************************************)
(* An error propagates through one frame; run()'s finally pops.            *)
(***************************************************************************)
Unwind ==
  /\ callStack # << >> /\ exc # "none"
  /\ LET f == Top(callStack) IN
       /\ callStack' = Pop(callStack)
       /\ activeEffectStack' = IF f.kind = "run" THEN runExit(activeEffectStack, TRUE)
                               ELSE activeEffectStack
       /\ IF Len(callStack) = 1
          THEN hostErr' = exc /\ exc' = "none"
          ELSE UNCHANGED << hostErr, exc >>
  /\ UNCHANGED << heap, proxies, toProxy, toRaw, effects, targetMap, ret, ops, lastOp,
                  started, finished, nwrites, reads, wraps >>

Next ==
  \/ \E arg \in HostArgs : HostReactive(arg)
  \/ \E r \in Raws : \E key \in ReadKeys(r) : HostGet(r, key)
  \/ \E r \in Raws : \E key \in WriteKeys(r) : \E value \in WriteVals(key) : HostSet(r, key, value)
  \/ \E r \in Raws : \E key \in DeleteKeys(r) : HostDelete(r, key)
  \/ \E f \in Fns : HostEffect(f)
  \/ StepGet
  \/ StepSet
  \/ StepThrow
  \/ StepWhen
  \/ StepEffect
  \/ RunReturn
  \/ TriggerNext
  \/ TriggerReturn
  \/ Unwind

Spec == Init /\ [][Next]_vars

\* the engine runs synchronous code to completion: a call in progress takes its next step
EngineStep ==
  \/ StepGet \/ StepSet \/ StepThrow \/ StepWhen \/ StepEffect
  \/ RunReturn \/ TriggerNext \/ TriggerReturn \/ Unwind

FairSpec == Spec /\ WF_vars(EngineStep)

TypeOK ==
  /\ ops \in 0..MaxOps
  /\ Len(effects) <= MaxEffects
  /\ exc \in {"none", "Error", "TypeError", "RangeError"}


(***************************************************************************)
(* Vocabulary of the properties.                                           *)
(***************************************************************************)
Frames == {callStack[j] : j \in 1..Len(callStack)}
Handles == 1..Len(effects)
Deps(target, key) == Range(DepSeq(targetMap, target, key))

\* the set trap of frame f is about to return normally
Returning(f) ==
  /\ f.kind = "set"
  /\ exc = "none"
  /\ f = Top(callStack)
  /\ f.type = "none" \/ f.i > Len(trigger(targetMap, f.t, f.key))

\* what the write of frame f did to the raw object, from the value it found
Added(f) == f.g.before = Absent
Changed(f) == f.g.before # Absent /\ ~StrictEq(f.g.before, f.g.value)
Unchanged(f) == f.g.before # Absent /\ StrictEq(f.g.before, f.g.value)

\* the effect() call of frame f is about to return normally
EffectReturning(f) ==
  /\ f.kind = "run" /\ f.direct
  /\ exc = "none"
  /\ f = Top(callStack)
  /\ f.pc > Len(Prog(effects[f.e]))

\* C1: a write through the wrapper that adds the key or changes its value has
\* invoked every computation that was in the dependency set of (target, key),
\* and every run begun during the write is over, when the write returns normally.
C1_WriteReplaysDependents ==
  \A f \in Frames :
    (Returning(f) /\ (Added(f) \/ Changed(f))) =>
      \A e \in Range(f.g.deps) :
        /\ started[e] > f.g.started[e]
        /\ started[e] - f.g.started[e] = finished[e] - f.g.finished[e]

C1_Witness ==
  \E f \in Frames :
    /\ Returning(f) /\ (Added(f) \/ Changed(f))
    /\ Cardinality(Range(f.g.deps)) >= 2

\* C2: a write to an own key with a value strictly equal to the stored one
\* invokes no computation, whatever the dependency set holds.
C2_NoOpWriteGuard ==
  \A f \in Frames :
    (f.kind = "set" /\ Unchanged(f)) =>
      /\ f = Top(callStack)
      /\ started = f.g.started
      /\ exc = "none"

C2_Witness ==
  \E f \in Frames :
    /\ Returning(f) /\ Unchanged(f)
    /\ f.g.deps # << >>


GetStep == (\E r \in Raws : \E key \in ReadKeys(r) : HostGet(r, key)) \/ StepGet

\* C3: a property read through a wrapper while the active-computation stack is
\* empty leaves the dependency graph as it is, and a dependency set only holds
\* computations that read the key of that object while they were running.
C3_TopLevelReadInert ==
  /\ [][(GetStep /\ activeEffectStack = << >>) => targetMap' = targetMap]_vars
  /\ [](\A t \in DOMAIN targetMap : \A k \in DOMAIN targetMap[t] :
          \A e \in Range(targetMap[t][k]) : e \in Handles /\ << e, t, k >> \in reads)

\* the host has just read o.nested, computations exist, none has read that key
C3_Witness ==
  /\ Idle /\ lastOp = "get"
  /\ ret.t = "proxy" /\ proxies[ret.v] = RawRef(2)
  /\ effects # << >> /\ targetMap # EmptyMap
  /\ Deps(RawRef(1), "nested") = {}

\* C4: reactive(v) returns the same wrapper for a record v on every call,
\* reactive(reactive(v)) is that wrapper, a raw object has at most one wrapper
\* and no wrapper wraps a wrapper.
C4_IdempotentWrapping ==
  /\ \A c \in wraps : \A d \in wraps : c[1] = d[1] => c[2] = d[2]
  /\ \A c \in wraps :
       /\ c[2].t = "proxy" /\ c[2].v \in 1..Len(proxies)
       /\ c[1].t = "raw" => proxies[c[2].v] = c[1]
       /\ c[1].t = "proxy" => c[2] = c[1]
  /\ \A p \in 1..Len(proxies) : \A q \in 1..Len(proxies) :
       proxies[p] = proxies[q] => p = q
  /\ \A p \in 1..Len(proxies) : proxies[p].t = "raw"

C4_Witness ==
  \E c \in wraps :
    /\ c[1].t = "raw"
    /\ << c[2], c[2] >> \in wraps
    /\ lastOp = "reactive" /\ ret = c[2]

RunFrames == SelectSeq(callStack, LAMBDA f : f.kind = "run")

\* C5: the active-computation stack holds exactly the handles of the runs in
\* progress, innermost last: it is empty whenever no call is in progress (also
\* after a callback threw) and after a nested run its depth is what it was before.
C5_StackDiscipline ==
  /\ callStack = << >> => activeEffectStack = << >>
  /\ Len(activeEffectStack) = Len(RunFrames)
  /\ \A j \in 1..Len(RunFrames) : activeEffectStack[j] = RunFrames[j].e

\* a write made by the host has ended with the error of a callback it triggered
C5_Witness ==
  /\ Idle /\ lastOp = "set" /\ hostErr = "Error"
  /\ activeEffectStack = << >>

NoDuplicates(s) == \A i \in 1..Len(s) : \A j \in 1..Len(s) : s[i] = s[j] => i = j

\* C6: one triggering write, whose replay makes no further write, runs each
\* computation of the dependency set exactly once, and no dependency set holds
\* a computation twice.
C6_EachDependentOnce ==
  /\ \A f \in Frames :
       (Returning(f) /\ (Added(f) \/ Changed(f)) /\ nwrites = f.g.nwrites + 1) =>
         \A e \in Range(f.g.deps) : started[e] = f.g.started[e] + 1
  /\ \A t \in DOMAIN targetMap : \A k \in DOMAIN targetMap[t] :
       NoDuplicates(targetMap[t][k])

C6_Witness ==
  \E f \in Frames :
    /\ Returning(f) /\ Changed(f) /\ nwrites = f.g.nwrites + 1
    /\ Cardinality(Range(f.g.deps)) >= 2
    /\ \A e \in Range(f.g.deps) : << e, f.t, f.key >> \in reads /\ finished[e] >= 2

IsCall(f) ==
  /\ f.kind = "run"
  /\ f.pc <= Len(Prog(effects[f.e]))
  /\ Prog(effects[f.e])[f.pc].op \in {"set", "setflip", "effect"}

\* C7: while a write made by a running computation is in progress that
\* computation stays at the write; when the write returns, every computation
\* of the dependency set has completed a run and no run begun during the
\* write is still in progress.
C7_ReentrantTrigger ==
  \A j \in 1..Len(callStack) :
    LET f == callStack[j] IN
      (f.kind = "set" /\ f.g.nested) =>
        /\ j > 1 /\ IsCall(callStack[j - 1])
        /\ Prog(effects[callStack[j - 1].e])[callStack[j - 1].pc].op \in {"set", "setflip"}
        /\ (Returning(f) /\ (Added(f) \/ Changed(f))) =>
             /\ \A e \in Range(f.g.deps) : finished[e] > f.g.finished[e]
             /\ \A e \in Handles :
                  started[e] - f.g.started[e] = finished[e] - f.g.finished[e]

\* the write of a computation has replayed another computation, which wrote in turn
C7_Witness ==
  \E j \in 2..Len(callStack) :
    LET f == callStack[j] IN
      /\ Returning(f) /\ Changed(f) /\ f.g.nested
      /\ \E e \in Range(f.g.deps) : e # callStack[j - 1].e /\ finished[e] > f.g.finished[e]
      /\ nwrites > f.g.nwrites + 1


\* v, when it is an object, is the one wrapper of a raw object
UniqueWrapper(v) ==
  isObject(v) =>
    /\ v.t = "proxy" /\ v.v \in 1..Len(proxies)
    /\ proxies[v.v].t = "raw"
    /\ MapGet(toProxy, proxies[v.v]) = v
    /\ \A q \in 1..Len(proxies) : proxies[q] = proxies[v.v] => q = v.v

\* the frames of the callback that reads reactive(o).nested.x, while o.nested is the nested object
NestedReaders(pc) ==
  {f \in Frames : /\ f.kind = "run" /\ effects[f.e] = 2 /\ f.pc = pc
                  /\ exc = "none"
                  /\ heap[1]["nested"] = RawRef(2)}

\* C8: a read of a record-valued property through a wrapper returns the one
\* wrapper of the nested raw object; a computation that reads
\* reactive(o).nested.x is a dependent of (o, "nested") and of (the nested raw
\* object, "x"), and a write that changes reactive(o).nested.x runs it again.
C8_NestedReactivity ==
  /\ \A f \in Frames : f.kind = "run" => UniqueWrapper(f.acc)
  /\ lastOp = "get" => UniqueWrapper(ret)
  /\ \A f \in NestedReaders(2) : f.acc.t = "proxy" /\ proxies[f.acc.v] = RawRef(2)
  /\ \A f \in NestedReaders(3) :
       /\ f.e \in Deps(RawRef(1), "nested")
       /\ f.e \in Deps(RawRef(2), "x")
  /\ \A f \in Frames :
       (Returning(f) /\ (Added(f) \/ Changed(f)) /\ f.t = RawRef(2) /\ f.key = "x") =>
         \A e \in Handles :
           (effects[e] = 2 /\ << e, RawRef(2), "x" >> \in reads) =>
             started[e] > f.g.started[e]

C8_Witness ==
  \E f \in Frames :
    /\ Returning(f) /\ Changed(f) /\ f.t = RawRef(2) /\ f.key = "x"
    /\ \E e \in Range(f.g.deps) :
         /\ effects[e] = 2
         /\ e \in Deps(RawRef(1), "nested")
         /\ started[e] = 2 /\ finished[e] = 2

\* the keys that the callback of e read through a wrapper have e in their dependency set
ReadsTracked(e) == \A c \in reads : c[1] = e => e \in Deps(c[2], c[3])

\* C9 as stated: effect(callback) has run the callback exactly once when it
\* returns, with the new handle on top of the stack during the run, and every
\* key the callback read has the handle in its dependency set.
C9_ExactlyOneRun ==
  /\ \A f \in Frames :
       (f.kind = "run" /\ f = Top(callStack)) =>
         activeEffectStack # << >> /\ Top(activeEffectStack) = f.e
  /\ \A f \in Frames :
       EffectReturning(f) => started[f.e] = 1 /\ ReadsTracked(f.e)

\* C9, amended: effect(callback) has run the callback at least once when it
\* returns, and exactly once when no write was made during the run; the handle
\* is on top of the stack whenever the callback's own steps run, and every key
\* the callback read has the handle in its dependency set.
C9_EagerFirstRun ==
  /\ \A f \in Frames :
       (f.kind = "run" /\ f = Top(callStack)) =>
         activeEffectStack # << >> /\ Top(activeEffectStack) = f.e
  /\ \A f \in Frames :
       EffectReturning(f) =>
         /\ started[f.e] >= 1
         /\ finished[f.e] = started[f.e] - 1
         /\ nwrites = f.g.nwrites => started[f.e] = 1
         /\ ReadsTracked(f.e)

C9_Witness ==
  \E f \in Frames :
    /\ EffectReturning(f)
    /\ started[f.e] = 1
    /\ \E c \in reads : c[1] = f.e
    /\ Len(activeEffectStack) = 1

\* C10: effect(callback) returns the effect handle to its caller.
C10_EffectReturnsHandle ==
  (Idle /\ lastOp = "effect" /\ hostErr = "none") =>
    ret.t = "fn" /\ ret.v \in Handles


\* C11: a write through the wrapper to a key the raw object does not own
\* replays the dependency set of (target, key) whatever the value written,
\* undefined included, so a computation that read the absent key runs again.
C11_AddAlwaysReplays ==
  \A f \in Frames :
    (f.kind = "set" /\ Added(f)) =>
      /\ f.type = "add"
      /\ Returning(f) =>
           /\ \A e \in Range(f.g.deps) : started[e] > f.g.started[e]
           /\ \A e \in 1..f.g.neffects :
                << e, f.t, f.key >> \in reads => started[e] > f.g.started[e]

\* undefined was written to an absent key that a computation had read
C11_Witness ==
  \E f \in Frames :
    /\ Returning(f) /\ Added(f)
    /\ f.g.value = Undef
    /\ f.g.deps # << >>
    /\ \A e \in Range(f.g.deps) : started[e] = f.g.started[e] + 1

DeleteStep == \E r \in Raws : \E key \in DeleteKeys(r) : HostDelete(r, key)

\* C12: a delete through the wrapper removes the key from the raw object,
\* invokes no computation and leaves the dependency graph, the registries
\* (of an object that is already wrapped) and the active-computation stack as
\* they are; the dependents of the key are run by a later write that adds it again.
C12_DeleteNoReplay ==
  /\ [][DeleteStep =>
          /\ \E r \in Raws : \E key \in DeleteKeys(r) :
               /\ heap' = [heap EXCEPT ![r][key] = Absent]
               /\ MapHas(toProxy, RawRef(r)) => UNCHANGED registries
          /\ targetMap' = targetMap
          /\ activeEffectStack' = activeEffectStack
          /\ started' = started
          /\ callStack' = << >> /\ exc' = "none"]_vars
  /\ [](\A f \in Frames :
          (Returning(f) /\ Added(f)) =>
            \A e \in Range(f.g.deps) : started[e] > f.g.started[e])

\* o.a was deleted while a computation depended on it, then written again
C12_Witness ==
  \E f \in Frames :
    /\ Returning(f) /\ Added(f) /\ ~f.g.nested
    /\ f.t = RawRef(1) /\ f.key = "a"
    /\ f.g.deps # << >>
    /\ \A e \in Range(f.g.deps) : started[e] > f.g.started[e]


\* C13: an error thrown by a callback is never swallowed: while it propagates,
\* each step leaves exactly the innermost call (the run that threw, then the
\* write that replayed it, then every enclosing run), no run begins or
\* completes normally, and when the outermost call is left the error is what
\* the top-level caller of effect() or of the write receives.
C13_ErrorsSurface ==
  /\ [][exc # "none" =>
          /\ callStack # << >>
          /\ callStack' = Pop(callStack)
          /\ finished' = finished /\ started' = started
          /\ IF Len(callStack) = 1
             THEN hostErr' = exc /\ exc' = "none"
             ELSE exc' = exc /\ hostErr' = hostErr]_vars
  /\ [](exc # "none" => callStack # << >>)
  /\ [](\A e \in Handles : Prog(effects[e])[Len(Prog(effects[e]))] = IThrow => finished[e] = 0)

\* the thrower was replayed by a write made inside another computation's
\* initial run, and its error reached the caller of that effect()
C13_Witness ==
  /\ Idle /\ lastOp = "effect" /\ hostErr = "Error"
  /\ effects = << 4, 3 >>
  /\ started[1] = 2 /\ finished[1] = 0
  /\ started[2] = 1 /\ finished[2] = 0


\* C14: no step removes an object's map, a key's dependency set or a member of
\* a dependency set from the graph (each set is only ever appended to), so a
\* computation that has read a key in some earlier run, whether or not its
\* latest run still read it, has been run again when a triggering write to
\* that key returns.
C14_DepsOnlyGrow ==
  /\ [][\A target \in DOMAIN targetMap :
          /\ target \in DOMAIN targetMap'
          /\ \A key \in DOMAIN targetMap[target] :
               /\ key \in DOMAIN targetMap'[target]
               /\ Len(targetMap[target][key]) <= Len(targetMap'[target][key])
               /\ targetMap[target][key] =
                    SubSeq(targetMap'[target][key], 1, Len(targetMap[target][key]))]_vars
  /\ [](\A e \in Handles : \A r \in Raws : \A key \in Keys :
          << e, RawRef(r), key >> \in reads => e \in Range(DepSeq(targetMap, RawRef(r), key)))
  /\ [](\A f \in Frames :
          (Returning(f) /\ f.type # "none") =>
            \A e \in 1..f.g.neffects :
              << e, f.t, f.key >> \in reads => started[e] > f.g.started[e])

\* the computation read b in its first run only (o.a was 1 then), and the
\* write that adds b has run it a third time
C14_Witness ==
  \E f \in Frames :
    /\ Returning(f) /\ f.type = "add" /\ f.t = RawRef(1) /\ f.key = "b"
    /\ effects = << 7 >>
    /\ heap[1]["a"] = Num(2)
    /\ f.g.started[1] = 2 /\ started[1] = 3 /\ finished[1] = 3


\* C15: a step adds to a dependency set nothing but the computation whose
\* callback is executing the read (the innermost run on the call stack), so a
\* computation is in the dependency set of a key exactly when its own callback
\* has read that key; this is so for the reads an outer callback makes after a
\* nested run has ended.
C15_InnermostAttribution ==
  /\ [][\A target \in DOMAIN targetMap' : \A key \in DOMAIN targetMap'[target] :
          LET new == Range(targetMap'[target][key]) \ Deps(target, key) IN
            new # {} => /\ callStack # << >>
                        /\ Top(callStack).kind = "run"
                        /\ new = {Top(callStack).e}]_vars
  /\ [](\A e \in Handles : \A r \in Raws : \A key \in Keys :
          e \in Deps(RawRef(r), key) <=> << e, RawRef(r), key >> \in reads)

\* the outer callback has read b after the run of another computation, nested
\* in its write, ended: b's dependency set holds the outer computation only
C15_Witness ==
  /\ Len(callStack) = 1
  /\ exc = "none"
  /\ Top(callStack).kind = "run"
  /\ effects = << 1, 3 >>
  /\ Top(callStack).e = 2 /\ Top(callStack).pc = 4
  /\ finished[1] = 2
  /\ Deps(RawRef(1), "b") = {2}
  /\ << 1, RawRef(1), "b" >> \notin reads


\* the callback () => o.a, which reads and never writes
Reader(e) == Prog(effects[e]) = << IGet(1, "a") >>

\* the run frame f executes the two consecutive writes o.a = NaN; o.a = 2
TwoWrites(f) ==
  /\ f.kind = "run"
  /\ Prog(effects[f.e]) = << ISet(1, "a", NaN), ISet(1, "a", Num(2)) >>

\* C16: when a callback makes consecutive writes to o.a, each changing the
\* value, and the replays make no further write, then between its writes and
\* after them every reader of o.a has started and completed one run for each
\* write made so far: the runs of a write are over before the next write starts.
C16_NoBatching ==
  \A f \in Frames :
    (TwoWrites(f) /\ f = Top(callStack) /\ exc = "none"
       /\ nwrites = f.g.nwrites + (f.pc - 1)) =>
      \A e \in Deps(RawRef(1), "a") :
        (Reader(e) /\ e < f.e) =>
          /\ started[e] = f.g.started[e] + (f.pc - 1)
          /\ finished[e] = f.g.finished[e] + (f.pc - 1)

\* both writes are done and two readers have each run twice more
C16_Witness ==
  \E f \in Frames :
    /\ TwoWrites(f) /\ f = Top(callStack) /\ exc = "none"
    /\ f.pc = 3 /\ nwrites = f.g.nwrites + 2
    /\ effects = << 1, 1, 8 >>
    /\ started = << 3, 3, 1 >> /\ finished = << 3, 3, 0 >>


\* the callback () => { o.a = o.a === 1 ? 2 : 1 }, which changes the key it read
Flipper(e) == Prog(effects[e]) = << IGet(1, "a"), ISetFlip(1, "a") >>

\* no registered callback writes
NoWriters ==
  \A e \in Handles : \A j \in 1..Len(Prog(effects[e])) :
    Prog(effects[e])[j].op \notin {"set", "setflip"}

\* a callback is at effect(fn) and the bound on the number of effects is reached
AtEffectBound == Running /\ CurIns.op = "effect" /\ Len(effects) = MaxEffects

Cell(f) == heap[BaseOf(proxies, f.t)][f.key]

\* the set trap of frame f is being left, normally or by an error
Finishing(f) ==
  /\ f.kind = "set"
  /\ f = Top(callStack)
  /\ Returning(f) \/ exc # "none"

C19_ReplaySnapshot ==
  \A f \in Frames :
    (Returning(f) /\ (Added(f) \/ Changed(f)) /\ nwrites = f.g.nwrites + 1) =>
      \A e \in Handles :
        /\ e > f.g.neffects => started[e] <= 1
        /\ (e <= f.g.neffects /\ e \notin Range(f.g.deps)) => started[e] = f.g.started[e]


\* C20: toProxy and toRaw are inverses of each other (toRaw[toProxy[r]] = r for
\* every registered raw object r, and every proxy created is registered in
\* both), an entry once made is never changed or removed, no proxy is a key of
\* toProxy, and every outer key of targetMap is a raw object.
C20_RegistryConsistency ==
  /\ [](\A r \in DOMAIN toProxy :
          /\ r.t = "raw"
          /\ toProxy[r].t = "proxy"
          /\ toProxy[r] \in DOMAIN toRaw
          /\ toRaw[toProxy[r]] = r)
  /\ [](\A w \in DOMAIN toRaw :
          /\ w.t = "proxy"
          /\ toRaw[w] \in DOMAIN toProxy
          /\ toProxy[toRaw[w]] = w)
  /\ [](\A p \in 1..Len(proxies) :
          /\ ProxyRef(p) \in DOMAIN toRaw
          /\ toRaw[ProxyRef(p)] = proxies[p])
  /\ [](\A target \in DOMAIN targetMap : target.t = "raw")
  /\ [][/\ \A r \in DOMAIN toProxy : r \in DOMAIN toProxy' /\ toProxy'[r] = toProxy[r]
        /\ \A w \in DOMAIN toRaw : w \in DOMAIN toRaw' /\ toRaw'[w] = toRaw[w]]_vars

\* two objects are wrapped, the second by a read through the first, both are
\* outer keys of targetMap, and reactive() has been given a proxy since
C20_Witness ==
  /\ Len(proxies) = 2
  /\ DOMAIN toProxy = {RawRef(1), RawRef(2)}
  /\ DOMAIN targetMap = {RawRef(1), RawRef(2)}
  /\ Idle /\ lastOp = "reactive" /\ ret = ProxyRef(2)
  /\ << ProxyRef(2), ProxyRef(2) >> \in wraps

====
